---- MODULE Spec2Model ----
(***************************************************************************)
(* State-machine model of create_trip (backend/eld_app/views.py): the      *)
(* geocoding and routing requests, the stop planner, the Hours-of-Service  *)
(* duty-cycle simulation and the grouping of the log by day (Spec), of     *)
(* decode_geometry (DecodeSpec) and of the status trace drawn by           *)
(* generate_log_image (RenderSpec).                                        *)
(*                                                                         *)
(* Units.  The code computes with floats in hours and miles.  The model    *)
(* computes exactly, in integers: every time is a number of SECONDS, every *)
(* distance a number of MILES.  The inputs are drawn so that the one       *)
(* conversion the code makes (hours * avg_mph, miles / avg_mph) is exact:  *)
(* the trip takes a whole number of seconds per mile that divides 1800.    *)
(* Floating-point rounding is therefore not part of the model.             *)
(***************************************************************************)
EXTENDS Integers, Sequences, FiniteSets, TLC

VARIABLES
    pc,                 \* position in create_trip
    total_mi,           \* input: distance1_mi + distance2_mi        (l.183)
    total_s,            \* input: total_hr, in seconds               (l.184)
    distance1_mi,       \* input: length of the leg to the pickup    (l.176)
    cycle_hours,        \* input: cycle hours used, in seconds       (l.33)
    full_cum,           \* input: cumulative-distance curve          (l.202)
    full_coords,        \* input: route points <<lon, lat>>          (l.182)
    stops,              \* l.209
    events,             \* l.245
    current_time,       \* seconds since start_time                  (l.234)
    current_mi,         \* l.235
    i,                  \* cursor into full_cum, 0-based             (l.236)
    window_start,       \* l.237
    last_break_end,     \* l.238
    cum_drive_day,      \* l.239
    cum_on_day,         \* l.240
    cum_on_8day,        \* l.241
    next_fuel,          \* l.242
    is_to_pickup,       \* l.243
    current_pos,        \* current_lat, current_lon                  (l.247)
    time_since_window,  \* local of one loop iteration               (l.265)
    drive_since_break,  \* local of one loop iteration               (l.285)
    max_drive,          \* local of one loop iteration, miles        (l.309)
    iter,               \* number of loop iterations entered
    iter_base,          \* history: len(events) when the iteration began
    geo,                \* what geocode() met for each location     (l.43-68)
    route_data1,        \* reply to the first routing request       (l.112)
    route_data2,        \* reply to the second routing request      (l.153)
    requests,           \* outbound requests issued so far
    response,           \* the JsonResponse returned, if any
    eld_logs,           \* l.365
    encoded,            \* decode_geometry: argument, as code points (l.395)
    points,             \* the coordinates encoded was made from, if any
    coordinates,        \* decode_geometry                          (l.396)
    index,              \* decode_geometry                          (l.397)
    lat,                \* decode_geometry                          (l.398)
    lon,                \* decode_geometry                          (l.399)
    shift,              \* decode_geometry                          (l.402)
    result,             \* decode_geometry                          (l.403)
    dpc,                \* position in decode_geometry
    r_events,           \* generate_log_image: argument events      (l.437)
    prev_status,        \* generate_log_image                       (l.481)
    prev_x,             \* generate_log_image, in 1/86400 pixel     (l.482)
    next_ev,            \* generate_log_image: place in events[1:]  (l.483)
    trace,              \* generate_log_image: status lines drawn
    rpc                 \* position in generate_log_image

vars == << pc, total_mi, total_s, distance1_mi, cycle_hours, full_cum,
           full_coords, stops, events, current_time, current_mi, i,
           window_start, last_break_end, cum_drive_day, cum_on_day,
           cum_on_8day, next_fuel, is_to_pickup, current_pos,
           time_since_window, drive_since_break, max_drive, iter, iter_base,
           geo, route_data1, route_data2, requests, response, eld_logs,
           encoded, points, coordinates, index, lat, lon, shift, result, dpc,
           r_events, prev_status, prev_x, next_ev, trace, rpc >>

inputs == << total_mi, total_s, distance1_mi, cycle_hours, full_cum, full_coords >>

simState == << current_time, current_mi, i, window_start, last_break_end,
               cum_drive_day, cum_on_day, cum_on_8day, next_fuel,
               is_to_pickup, current_pos >>

locals == << time_since_window, drive_since_break, max_drive >>

frontEnd == << geo, route_data1, route_data2, requests >>

decoder == << encoded, points, coordinates, index, lat, lon, shift, result, dpc >>

renderer == << r_events, prev_status, prev_x, next_ev, trace, rpc >>

(* What decode_geometry never touches *)
trip == << pc, inputs, stops, events, simState, locals, iter, iter_base, frontEnd, response, eld_logs >>

(* What the planner and the simulation loop never touch *)
beyondSim == << frontEnd, response, eld_logs, decoder, renderer >>

----------------------------------------------------------------------------
(* Program constants *)

SecPerHour == 3600
SecPerMinute == 60
SecPerDay == 86400
StartHour == 18
StartMinute == 45
FuelInterval == 1000
DriveLimitHrs == 11
WindowLimitHrs == 14
CycleLimitHrs == 70
BreakAfterHrs == 8
ShortRestHrs == 10
LongRestHrs == 34
BreakMinutes == 30
FuelMinutes == 30
PickupDwellHrs == 1
DropoffDwellHrs == 1
OffDuty == 0
Driving == 2
OnDuty == 3

(* Bound of the model: the loop is not entered more than MaxIter times. *)
MaxIter == 60

Hours(h) == h * SecPerHour
Minutes(m) == m * SecPerMinute

Min2(a, b) == IF a <= b THEN a ELSE b
Max2(a, b) == IF a >= b THEN a ELSE b
Min4(a, b, c, d) == Min2(Min2(a, b), Min2(c, d))

----------------------------------------------------------------------------
(* Geocoded end points, as (lat, lon) pairs in whole degrees *)

current_coords == << 32, -96 >>
pickup_coords == << 40, -74 >>
dropoff_coords == << 34, -118 >>

(* A position is a pair of rationals, each << numerator, denominator >>. *)
Whole(n) == << n, 1 >>
Pos(plat, plon) == [lat |-> plat, lon |-> plon]

(* a + frac * (b - a), with frac = num / den *)
Lerp(a, b, num, den) == << a * den + num * (b - a), den >>

(* 0-based access, as in the code *)
Cum(k) == full_cum[k + 1]
Coord(k) == full_coords[k + 1]
LON == 1
LAT == 2

----------------------------------------------------------------------------
(* avg_mph = total_mi / total_hr if total_hr > 0 else 0 *)
AvgIsZero == total_s <= 0 \/ total_mi = 0

(* hours * avg_mph, in miles *)
ToMiles(secs) == IF AvgIsZero THEN 0 ELSE (secs * total_mi) \div total_s

(* miles / avg_mph, in seconds; the caller guards avg_mph # 0 *)
ToSecs(miles) == (miles * total_s) \div total_mi

----------------------------------------------------------------------------
(* add_event: the (day, hour-of-day) stamp of the time t *)
(* Faulty variant of StartSecOfDay: the trip starts at midnight *)
StartAtMidnight == Hours(0)

StartSecOfDay == Hours(StartHour) + Minutes(StartMinute)
(* Faulty variant of DayOf: the day counted from the start of the trip *)
DayOfSinceStart(t) == t \div SecPerDay

DayOf(t) == (StartSecOfDay + t) \div SecPerDay
SecOfDay(t) == (StartSecOfDay + t) % SecPerDay

Event(t, status, loc) ==
    [day |-> DayOf(t), hours |-> SecOfDay(t), status |-> status, location |-> loc]

Stop(pos, type) == [lat |-> pos.lat, lon |-> pos.lon, type |-> type]

----------------------------------------------------------------------------
(* Compute stops (l.209-224) *)

(* for i in range(1, len(full_cum)): the first i with                      *)
(* full_cum[i] >= next_fuel >= full_cum[i-1]; 0 when the loop finds none.   *)
Brackets(k, nf) == Cum(k) >= nf /\ nf >= Cum(k - 1)

FirstBracket(nf) ==
    LET hits == { k \in 1..(Len(full_cum) - 1) : Brackets(k, nf) }
    IN  IF hits = {} THEN 0 ELSE CHOOSE k \in hits : \A j \in hits : k <= j

FuelingAt(nf) == "Fueling at " \o ToString(nf) \o " mi"

PlannedFuelStop(k, nf) ==
    LET num == nf - Cum(k - 1)
        den == Cum(k) - Cum(k - 1)
    IN  Stop(Pos(Lerp(Coord(k - 1)[LAT], Coord(k)[LAT], num, den),
                 Lerp(Coord(k - 1)[LON], Coord(k)[LON], num, den)),
             FuelingAt(nf))

(* while next_fuel < total_mi: ...; next_fuel += 1000 *)
RECURSIVE PlannedFuel(_)
PlannedFuel(nf) ==
    IF nf < total_mi
    THEN (IF FirstBracket(nf) = 0
          THEN << >>
          ELSE << PlannedFuelStop(FirstBracket(nf), nf) >>)
         \o PlannedFuel(nf + FuelInterval)
    ELSE << >>

PlannedStops ==
    PlannedFuel(FuelInterval)
    \o << Stop(Pos(Whole(pickup_coords[1]), Whole(pickup_coords[2])), "Pickup"),
          Stop(Pos(Whole(dropoff_coords[1]), Whole(dropoff_coords[2])), "Dropoff") >>

----------------------------------------------------------------------------
(* Responses (JsonResponse): the status, the 'error' entry and the keys of *)
(* the body.                                                               *)

JsonResponse(status, error, keys) == [status |-> status, error |-> error, keys |-> keys]

(* nothing returned yet *)
NoResponse == JsonResponse(0, "", { })

Locations == { "current", "pickup", "dropoff" }

(* l.50-68: what a geocode() call can meet: a result, a status other than  *)
(* 200, or an empty result list.                                           *)
GeocodeReplies == { "found", "http_error", "no_results" }

(* l.55-66: geocode() returns coordinates, and not None *)
GeocodedUnlessHttpError(reply) == reply # "http_error"

Geocoded(reply) == reply = "found"

(* l.77: all([current_coords, pickup_coords, dropoff_coords]) *)
AllGeocoded(g) == \A l \in Locations : Geocoded(g[l])

(* l.78-81 *)
Missing(g) ==
    (IF ~Geocoded(g["current"]) THEN << "current" >> ELSE << >>)
    \o (IF ~Geocoded(g["pickup"]) THEN << "pickup" >> ELSE << >>)
    \o (IF ~Geocoded(g["dropoff"]) THEN << "dropoff" >> ELSE << >>)

(* str.join *)
RECURSIVE Join(_, _)
Join(sep, names) ==
    IF names = << >> THEN ""
    ELSE IF Len(names) = 1 THEN names[1]
    ELSE names[1] \o sep \o Join(sep, Tail(names))

(* l.82 *)
InvalidLocations(g) ==
    JsonResponse(400, "Invalid locations: " \o Join(", ", Missing(g)), { "error" })

(* l.87-91 *)
KeyNotConfigured ==
    JsonResponse(500, "OpenRouteService API key not configured", { "error" })

(* What a routing request can be answered with: an error payload, a body   *)
(* without routes, a route whose fields cannot be read (KeyError or        *)
(* IndexError, l.135 and l.169), or a route.                               *)
RouteReplies == { "error", "no_routes", "unparsable", "route" }

(* l.115-140 *)
FirstRouteFailure(reply) ==
    CASE reply = "error" ->
           JsonResponse(400, "Route calculation failed",
                        { "error", "api_error", "message", "status" })
      [] reply = "no_routes" ->
           JsonResponse(500, "Invalid route response from API", { "error", "response" })
      [] OTHER ->
           JsonResponse(500, "Failed to parse route data",
                        { "error", "response", "exception" })

(* l.155-170 *)
SecondRouteFailureAsFirst(reply) == FirstRouteFailure(reply)

SecondRouteFailure(reply) ==
    CASE reply = "error" ->
           JsonResponse(400, "Second route calculation failed", { "error", "api_error" })
      [] reply = "no_routes" ->
           JsonResponse(500, "Invalid second route response", { "error" })
      [] OTHER ->
           JsonResponse(500, "Failed to parse second route data", { "error", "exception" })

(* generate_log_image is not running *)
RendererIdle ==
    /\ r_events = << >>
    /\ prev_status = 0
    /\ prev_x = 0
    /\ next_ev = 0
    /\ trace = << >>
    /\ rpc = "idle"

(* decode_geometry is not running *)
DecoderIdle ==
    /\ encoded = << >>
    /\ points = << >>
    /\ coordinates = << >>
    /\ index = 0
    /\ lat = 0
    /\ lon = 0
    /\ shift = 0
    /\ result = 0
    /\ dpc = "idle"

----------------------------------------------------------------------------
(* The inputs of one request.  A trip is a total distance, a pace in       *)
(* seconds per mile (72 s/mile = 50 mph, 9 s/mile = 400 mph; 0 stands for  *)
(* a route of zero duration), a pickup distance, the cycle hours used and  *)
(* a route polyline with its cumulative-distance curve.                    *)
TotalMiChoices == { 0, 300, 500, 1000, 1500, 4400 }
PaceChoices == { 72, 9, 0 }
Leg1Choices == { 0, 100, 450, 1000, 4000 }
CycleChoices == { 0, Hours(65), Hours(69), Hours(70), Hours(110) }
RouteChoices ==
    { [cum |-> << 0, 600, 1200, 5000 >>,
       coords |-> << << -96, 32 >>, << -90, 35 >>, << -84, 38 >>, << -74, 40 >> >>],
      [cum |-> << 0, 400 >>,
       coords |-> << << -96, 32 >>, << -92, 34 >> >>],
      [cum |-> << 0, 1000, 1000, 3000 >>,
       coords |-> << << -96, 32 >>, << -86, 36 >>, << -86, 36 >>, << -74, 40 >> >>] }

Init ==
    /\ pc = "geocode"
    /\ total_mi \in TotalMiChoices
    /\ \E pace \in PaceChoices : total_s = total_mi * pace
    /\ distance1_mi \in { d \in Leg1Choices \cup {total_mi} : d <= total_mi }
    /\ cycle_hours \in CycleChoices
    /\ \E r \in RouteChoices : full_cum = r.cum /\ full_coords = r.coords
    /\ stops = << >>
    /\ events = << >>
    /\ current_time = 0
    /\ current_mi = 0
    /\ i = 0
    /\ window_start = 0
    /\ last_break_end = 0
    /\ cum_drive_day = 0
    /\ cum_on_day = 0
    /\ cum_on_8day = cycle_hours
    /\ next_fuel = FuelInterval
    /\ is_to_pickup = TRUE
    /\ current_pos = Pos(Whole(current_coords[1]), Whole(current_coords[2]))
    /\ time_since_window = 0
    /\ drive_since_break = 0
    /\ max_drive = 0
    /\ iter = 0
    /\ iter_base = 0
    /\ geo = [l \in Locations |-> "pending"]
    /\ route_data1 = "pending"
    /\ route_data2 = "pending"
    /\ requests = << >>
    /\ response = NoResponse
    /\ eld_logs = << >>
    /\ DecoderIdle
    /\ RendererIdle

----------------------------------------------------------------------------
(* Geocoding and routing (l.43-170).  The replies of the two services are  *)
(* drawn when the request is made.                                         *)

(* l.73-75: the three geocode() calls; l.77-82: the 400 naming the failures *)
Geocode ==
    /\ pc = "geocode"
    /\ \E g \in [Locations -> GeocodeReplies] :
          /\ geo' = g
          /\ requests' = requests \o << "geocode current", "geocode pickup", "geocode dropoff" >>
          /\ IF ~AllGeocoded(g)
             THEN /\ response' = InvalidLocations(g)
                  /\ pc' = "rejected"
             ELSE /\ pc' = "route1"
                  /\ UNCHANGED response
    /\ UNCHANGED << inputs, stops, events, simState, locals, iter, iter_base,
                    route_data1, route_data2, eld_logs, decoder, renderer >>

(* l.87-140: the API key, the first routing request, its reply *)
Route1 ==
    /\ pc = "route1"
    /\ \E key \in BOOLEAN, reply \in RouteReplies :
          IF ~key
          THEN /\ response' = KeyNotConfigured
               /\ pc' = "rejected"
               /\ UNCHANGED << requests, route_data1 >>
          ELSE /\ requests' = Append(requests, "route 1")
               /\ route_data1' = reply
               /\ IF reply = "route"
                  THEN /\ pc' = "route2"
                       /\ UNCHANGED response
                  ELSE /\ response' = FirstRouteFailure(reply)
                       /\ pc' = "rejected"
    /\ UNCHANGED << inputs, stops, events, simState, locals, iter, iter_base,
                    geo, route_data2, eld_logs, decoder, renderer >>

(* l.145-170: the second routing request, its reply *)
Route2 ==
    /\ pc = "route2"
    /\ \E reply \in RouteReplies :
          /\ requests' = Append(requests, "route 2")
          /\ route_data2' = reply
          /\ IF reply = "route"
             THEN /\ pc' = "plan"
                  /\ UNCHANGED response
             ELSE /\ response' = SecondRouteFailure(reply)
                  /\ pc' = "rejected"
    /\ UNCHANGED << inputs, stops, events, simState, locals, iter, iter_base,
                    geo, route_data1, eld_logs, decoder, renderer >>

(* l.209-224: the stop list is seeded *)
PlanStops ==
    /\ pc = "plan"
    /\ UNCHANGED beyondSim
    /\ stops' = PlannedStops
    /\ pc' = "start"
    /\ UNCHANGED << inputs, events, simState, locals, iter, iter_base >>

(* l.258: add_event(3, 'Start at ...') *)
StartSim ==
    /\ pc = "start"
    /\ UNCHANGED beyondSim
    /\ events' = Append(events, Event(current_time, OnDuty, "Start at A"))
    /\ pc' = "loop"
    /\ UNCHANGED << inputs, stops, simState, locals, iter, iter_base >>

----------------------------------------------------------------------------
(* Main simulation loop (l.263-354), one action per step of an iteration *)

(* l.263-265: while current_mi < total_mi: time_since_window = ... *)
LoopTest ==
    /\ pc = "loop"
    /\ UNCHANGED beyondSim
    /\ IF current_mi < total_mi
       THEN /\ iter < MaxIter
            /\ iter' = iter + 1
            /\ iter_base' = Len(events)
            /\ time_since_window' = current_time - window_start
            /\ pc' = "rest"
       ELSE /\ pc' = "exit"
            /\ UNCHANGED << iter, iter_base, time_since_window >>
    /\ UNCHANGED << inputs, stops, events, simState, drive_since_break, max_drive >>

(* Faulty variant of RestDue: the 11-hour driving limit is not tested *)
RestDueNoDriveLimit(cdd, tsw, c8) ==
    tsw >= Hours(WindowLimitHrs) \/ c8 >= Hours(CycleLimitHrs)

(* l.269 *)
RestDue(cdd, tsw, c8) ==
    cdd >= Hours(DriveLimitHrs) \/ tsw >= Hours(WindowLimitHrs) \/ c8 >= Hours(CycleLimitHrs)

(* l.271: rest_hours = 10 if cum_on_8day < 70 else 34 *)
RestHours(c8) ==
    IF c8 < Hours(CycleLimitHrs) THEN Hours(ShortRestHrs) ELSE Hours(LongRestHrs)

(* Faulty variant of CycleAfterRest: a 34-hour rest clears the cycle total *)
CycleAfterRestCleared(c8, rest) == IF rest = Hours(LongRestHrs) THEN 0 ELSE c8

(* l.281: max(0, cum_on_8day - (rest_hours if rest_hours == 34 else 0)) *)
CycleAfterRest(c8, rest) ==
    Max2(0, c8 - (IF rest = Hours(LongRestHrs) THEN rest ELSE 0))

RestLabel(rest) == "Rest Stop (" \o ToString(rest \div SecPerHour) \o "hrs)"

(* l.269-282 *)
LongRest ==
    /\ pc = "rest"
    /\ UNCHANGED beyondSim
    /\ IF RestDue(cum_drive_day, time_since_window, cum_on_8day)
       THEN LET rest == RestHours(cum_on_8day)
            IN  /\ events' = events \o
                       << Event(current_time, OffDuty, RestLabel(rest)),
                          Event(current_time + rest, OnDuty, "End Rest") >>
                /\ current_time' = current_time + rest
                /\ window_start' = current_time + rest
                /\ last_break_end' = current_time + rest
                /\ cum_drive_day' = 0
                /\ cum_on_day' = 0
                /\ cum_on_8day' = CycleAfterRest(cum_on_8day, rest)
                /\ stops' = Append(stops, Stop(current_pos, "Rest Stop"))
       ELSE UNCHANGED << events, current_time, window_start, last_break_end,
                         cum_drive_day, cum_on_day, cum_on_8day, stops >>
    /\ pc' = "brk"
    /\ UNCHANGED << inputs, current_mi, i, next_fuel, is_to_pickup, current_pos,
                    locals, iter, iter_base >>

(* l.285 *)
DriveSinceBreak(cdd, lbe, ws) == IF lbe > ws THEN cdd - (lbe - ws) ELSE cdd

(* Faulty variant of BreakDue: strict comparison *)
BreakDueStrict(dsb) == dsb > Hours(BreakAfterHrs)

(* l.286 *)
BreakDue(dsb) == dsb >= Hours(BreakAfterHrs)

(* l.285-292 *)
ShortBreak ==
    /\ pc = "brk"
    /\ UNCHANGED beyondSim
    /\ LET dsb == DriveSinceBreak(cum_drive_day, last_break_end, window_start)
       IN  IF BreakDue(dsb)
           THEN /\ events' = events \o
                       << Event(current_time, OffDuty, "30min Break"),
                          Event(current_time + Minutes(BreakMinutes), Driving, "End Break") >>
                /\ current_time' = current_time + Minutes(BreakMinutes)
                /\ last_break_end' = current_time + Minutes(BreakMinutes)
                /\ drive_since_break' = 0
                /\ stops' = Append(stops, Stop(current_pos, "Break"))
           ELSE /\ drive_since_break' = dsb
                /\ UNCHANGED << events, current_time, last_break_end, stops >>
    /\ pc' = "pickup"
    /\ UNCHANGED << inputs, current_mi, i, window_start, cum_drive_day, cum_on_day,
                    cum_on_8day, next_fuel, is_to_pickup, current_pos,
                    time_since_window, max_drive, iter, iter_base >>

(* l.295 *)
PickupDue(to_pickup, mi) == to_pickup /\ mi >= distance1_mi

(* l.295-302 *)
Pickup ==
    /\ pc = "pickup"
    /\ UNCHANGED beyondSim
    /\ IF PickupDue(is_to_pickup, current_mi)
       THEN /\ events' = events \o
                   << Event(current_time, OnDuty, "Pickup at B"),
                      Event(current_time + Hours(PickupDwellHrs), Driving, "Start to Dropoff") >>
            /\ current_time' = current_time + Hours(PickupDwellHrs)
            /\ cum_on_day' = cum_on_day + Hours(PickupDwellHrs)
            /\ cum_on_8day' = cum_on_8day + Hours(PickupDwellHrs)
            /\ is_to_pickup' = FALSE
       ELSE UNCHANGED << events, current_time, cum_on_day, cum_on_8day, is_to_pickup >>
    /\ pc' = "cap"
    /\ UNCHANGED << inputs, stops, current_mi, i, window_start, last_break_end,
                    cum_drive_day, next_fuel, current_pos, locals, iter, iter_base >>

(* Faulty variants of MaxDriveBreak: the break cap measured against the   *)
(* 11-hour limit, and the break cap one hour too long                     *)
MaxDriveBreakAsDay(dsb) == Hours(DriveLimitHrs) - dsb
MaxDriveBreakLate(dsb) ==
    IF dsb < Hours(BreakAfterHrs) THEN Hours(BreakAfterHrs + 1) - dsb ELSE 0

(* l.305 *)
MaxDriveBreak(dsb) == IF dsb < Hours(BreakAfterHrs) THEN Hours(BreakAfterHrs) - dsb ELSE 0
(* l.306 *)
MaxDriveDay(cdd) == Hours(DriveLimitHrs) - cdd
(* l.307 *)
MaxDriveWindow(tsw) == Hours(WindowLimitHrs) - tsw

(* Faulty variant of MaxDrive: the 11-hour cap is left out of the minimum *)
MaxDriveNoDayCap(dsb, cdd, tsw, mi) ==
    ToMiles(Min4(MaxDriveBreak(dsb), MaxDriveBreak(dsb), MaxDriveWindow(tsw),
                 ToSecs(total_mi - mi)))

(* l.309: min(...) * avg_mph, in miles *)
MaxDrive(dsb, cdd, tsw, mi) ==
    ToMiles(Min4(MaxDriveBreak(dsb), MaxDriveDay(cdd), MaxDriveWindow(tsw),
                 ToSecs(total_mi - mi)))

(* Faulty variant of FuelCap: the step is not capped *)
FuelCapMissing(mi, md, nf) == md

(* l.312-313 *)
FuelCap(mi, md, nf) == IF mi + md > nf THEN nf - mi ELSE md

(* l.305-313; (total_mi - current_mi) / avg_mph raises ZeroDivisionError   *)
(* when avg_mph is 0                                                        *)
ComputeMaxDrive ==
    /\ pc = "cap"
    /\ UNCHANGED beyondSim
    /\ IF AvgIsZero
       THEN /\ pc' = "crashed"
            /\ UNCHANGED max_drive
       ELSE /\ max_drive' = FuelCap(current_mi,
                                    MaxDrive(drive_since_break, cum_drive_day,
                                             time_since_window, current_mi),
                                    next_fuel)
            /\ pc' = "drive"
    /\ UNCHANGED << inputs, stops, events, simState, time_since_window,
                    drive_since_break, iter, iter_base >>

(* Faulty variant of AdvanceCursor: the cursor also passes a point that   *)
(* lies exactly at the target                                             *)
RECURSIVE AdvanceCursorPastEqual(_, _)
AdvanceCursorPastEqual(k, target) ==
    IF k < Len(full_cum) - 1 /\ Cum(k + 1) <= target
    THEN AdvanceCursorPastEqual(k + 1, target)
    ELSE k

(* l.327-328: while i < len(full_cum) - 1 and full_cum[i+1] < target: i += 1 *)
RECURSIVE AdvanceCursor(_, _)
AdvanceCursor(k, target) ==
    IF k < Len(full_cum) - 1 /\ Cum(k + 1) < target
    THEN AdvanceCursor(k + 1, target)
    ELSE k

(* l.329-336 *)
PositionAt(k, target) ==
    IF k < Len(full_cum) - 1
    THEN LET num == target - Cum(k)
             den == Cum(k + 1) - Cum(k)
         IN  Pos(Lerp(Coord(k)[LAT], Coord(k + 1)[LAT], num, den),
                 Lerp(Coord(k)[LON], Coord(k + 1)[LON], num, den))
    ELSE Pos(Whole(Coord(Len(full_coords) - 1)[LAT]),
             Whole(Coord(Len(full_coords) - 1)[LON]))

(* l.316-336 *)
Drive ==
    /\ pc = "drive"
    /\ UNCHANGED beyondSim
    /\ IF max_drive > 0
       THEN LET dt == ToSecs(max_drive)
                target == current_mi + max_drive
                k == AdvanceCursor(i, target)
            IN  /\ events' = Append(events, Event(current_time, Driving, "Driving"))
                /\ current_time' = current_time + dt
                /\ current_mi' = target
                /\ cum_drive_day' = cum_drive_day + dt
                /\ cum_on_day' = cum_on_day + dt
                /\ cum_on_8day' = cum_on_8day + dt
                /\ drive_since_break' = drive_since_break + dt
                /\ i' = k
                /\ current_pos' = PositionAt(k, target)
                /\ pc' = "fuel"
       ELSE /\ pc' = "finish"
            /\ UNCHANGED << events, current_time, current_mi, cum_drive_day,
                            cum_on_day, cum_on_8day, drive_since_break, i, current_pos >>
    /\ UNCHANGED << inputs, stops, window_start, last_break_end, next_fuel,
                    is_to_pickup, time_since_window, max_drive, iter, iter_base >>

(* l.339 *)
FuelDue(mi, nf) == mi >= nf

(* l.339-346 *)
Fuel ==
    /\ pc = "fuel"
    /\ UNCHANGED beyondSim
    /\ IF FuelDue(current_mi, next_fuel)
       THEN /\ events' = events \o
                   << Event(current_time, OnDuty, "Fueling"),
                      Event(current_time + Minutes(FuelMinutes), Driving, "End Fueling") >>
            /\ current_time' = current_time + Minutes(FuelMinutes)
            /\ cum_on_day' = cum_on_day + Minutes(FuelMinutes)
            /\ cum_on_8day' = cum_on_8day + Minutes(FuelMinutes)
            /\ next_fuel' = next_fuel + FuelInterval
            /\ stops' = Append(stops, Stop(current_pos, "Fueling"))
       ELSE UNCHANGED << events, current_time, cum_on_day, cum_on_8day, next_fuel, stops >>
    /\ pc' = "finish"
    /\ UNCHANGED << inputs, current_mi, i, window_start, last_break_end,
                    cum_drive_day, is_to_pickup, current_pos, locals, iter, iter_base >>

(* Faulty variant of Arrived: strict comparison *)
ArrivedStrict(mi) == mi > total_mi

(* l.349 *)
Arrived(mi) == mi >= total_mi

(* l.349-354 *)
Finish ==
    /\ pc = "finish"
    /\ UNCHANGED beyondSim
    /\ IF Arrived(current_mi)
       THEN /\ events' = events \o
                   << Event(current_time, OnDuty, "Dropoff at C"),
                      Event(current_time + Hours(DropoffDwellHrs), OffDuty, "Off Duty") >>
            /\ current_time' = current_time + Hours(DropoffDwellHrs)
            /\ cum_on_day' = cum_on_day + Hours(DropoffDwellHrs)
            /\ cum_on_8day' = cum_on_8day + Hours(DropoffDwellHrs)
       ELSE UNCHANGED << events, current_time, cum_on_day, cum_on_8day >>
    /\ pc' = "loop"
    /\ UNCHANGED << inputs, stops, current_mi, i, window_start, last_break_end,
                    cum_drive_day, next_fuel, is_to_pickup, current_pos, locals, iter, iter_base >>

(* l.382-385: the response is returned *)
(* l.361-363: the days of the log, in the order a dict first meets them *)
DayKeys ==
    LET NewDay(k) == \A j \in 1..(k - 1) : events[j].day # events[k].day
        firsts == SelectSeq([k \in 1..Len(events) |-> k], NewDay)
    IN  [k \in 1..Len(firsts) |-> events[firsts[k]].day]

(* l.362-363: day_events[day] *)
DayEvents(day) == LET OfDay(e) == e.day = day IN SelectSeq(events, OfDay)

(* l.369 *)
ZeroHourMarker == [hours |-> 0, status |-> OffDuty, location |-> ""]

(* l.368-369: the list handed to generate_log_image *)
WithZeroHourNever(day_ev) == day_ev

WithZeroHour(day_ev) ==
    IF day_ev[1].hours > 0 THEN << ZeroHourMarker >> \o day_ev ELSE day_ev

(* l.365-374: one entry for each day; day_ev stands for the image drawn of it *)
EldLogs ==
    LET days == DayKeys
    IN  [k \in 1..Len(days) |-> [day |-> days[k], day_ev |-> WithZeroHour(DayEvents(days[k]))]]

(* l.361-385: the daily logs and the final JSON response *)
Respond ==
    /\ pc = "exit"
    /\ eld_logs' = EldLogs
    /\ response' = JsonResponse(200, "", { "route", "eld_logs" })
    /\ pc' = "done"
    /\ UNCHANGED << inputs, stops, events, simState, locals, iter, iter_base, frontEnd, decoder,
                    renderer >>

Next ==
    \/ Geocode
    \/ Route1
    \/ Route2
    \/ PlanStops
    \/ StartSim
    \/ LoopTest
    \/ LongRest
    \/ ShortBreak
    \/ Pickup
    \/ ComputeMaxDrive
    \/ Drive
    \/ Fuel
    \/ Finish
    \/ Respond

Spec == Init /\ [][Next]_vars

(* The loop is sequential code: a step that can be taken is taken. *)
FairSpec == Spec /\ WF_vars(Next)

----------------------------------------------------------------------------
(* decode_geometry (l.395-428).  A string is the sequence of its code      *)
(* points, which is what ord() reads of it; coordinates are kept in        *)
(* integer units of 1e-5 degree, the final scaling by 1e-5 (l.426) is not  *)
(* modelled.                                                               *)

(* the characters with code points 32..95 and 97..126, in order; code    *)
(* point 96, the backquote, cannot be written in a string here            *)
AsciiTo95 == " !\"#$%&'()*+,-./0123456789:;<=>?@ABCDEFGHIJKLMNOPQRSTUVWXYZ[\\]^_"
AsciiFrom97 == "abcdefghijklmnopqrstuvwxyz{|}~"

Within(c, table) == \E k \in 1..Len(table) : SubSeq(table, k, k) = c
Place(c, table) == CHOOSE k \in 1..Len(table) : SubSeq(table, k, k) = c

(* ord() *)
Ord(c) == IF Within(c, AsciiTo95) THEN 31 + Place(c, AsciiTo95) ELSE 96 + Place(c, AsciiFrom97)

Codes(str) == [k \in 1..Len(str) |-> Ord(SubSeq(str, k, k))]

Offset == 63
Mask == 31
Continuation == 32
ChunkBits == 5

(* l.407: byte & 0x1F, also of a negative byte *)
Low5(byte) == byte % (Mask + 1)

(* l.407: result |= chunk << shift.  result is below 2^shift, so that the  *)
(* bits of the two never meet and the OR is their sum.                     *)
OrShifted(res, chunk, sh) == res + chunk * 2^sh

(* l.411, l.423: ~(result >> 1) if (result & 1) else (result >> 1) *)
ChangeUnsigned(res) == res \div 2

Change(res) == IF res % 2 = 1 THEN -(res \div 2) - 1 ELSE res \div 2

(* l.426: [lon, lat] *)
PointLatFirst(plon, plat) == << plat, plon >>

Point(plon, plat) == << plon, plat >>

(* l.401: while index < len(encoded); l.402-403; l.428: return coordinates *)
DecodeTest ==
    /\ dpc = "test"
    /\ UNCHANGED << trip, renderer >>
    /\ IF index < Len(encoded)
       THEN /\ shift' = 0
            /\ result' = 0
            /\ dpc' = "lat"
       ELSE /\ dpc' = "returned"
            /\ UNCHANGED << shift, result >>
    /\ UNCHANGED << encoded, points, coordinates, index, lat, lon >>

(* l.405-410 and l.417-422: one turn of a while True loop.  encoded[index] *)
(* past the end raises IndexError.                                         *)
ReadByte(after) ==
    IF index >= Len(encoded)
    THEN /\ dpc' = "IndexError"
         /\ UNCHANGED << index, result, shift >>
    ELSE LET byte == encoded[index + 1] - Offset
         IN  /\ index' = index + 1
             /\ result' = OrShifted(result, Low5(byte), shift)
             /\ shift' = shift + ChunkBits
             /\ dpc' = IF byte < Continuation THEN after ELSE dpc

(* l.404-410 *)
LatByte ==
    /\ dpc = "lat"
    /\ UNCHANGED << trip, renderer >>
    /\ ReadByte("lat_change")
    /\ UNCHANGED << encoded, points, coordinates, lat, lon >>

(* l.411-415 *)
LatChange ==
    /\ dpc = "lat_change"
    /\ UNCHANGED << trip, renderer >>
    /\ lat' = lat + Change(result)
    /\ shift' = 0
    /\ result' = 0
    /\ dpc' = "lon"
    /\ UNCHANGED << encoded, points, coordinates, index, lon >>

(* l.416-422 *)
LonByte ==
    /\ dpc = "lon"
    /\ UNCHANGED << trip, renderer >>
    /\ ReadByte("lon_change")
    /\ UNCHANGED << encoded, points, coordinates, lat, lon >>

(* l.423-426 *)
LonChange ==
    /\ dpc = "lon_change"
    /\ UNCHANGED << trip, renderer >>
    /\ lon' = lon + Change(result)
    /\ coordinates' = Append(coordinates, Point(lon', lat))
    /\ dpc' = "test"
    /\ UNCHANGED << encoded, points, index, lat, shift, result >>

(* The encoder of the same scheme: the deltas of successive points,        *)
(* latitude first, zig-zag coded, cut into 5-bit chunks from the low end,  *)
(* each but the last with the continuation bit, each plus 63.              *)
ZigZag(v) == IF v < 0 THEN -2 * v - 1 ELSE 2 * v

RECURSIVE Chunks(_)
Chunks(u) ==
    IF u >= Continuation
    THEN << (u % Continuation) + Continuation + Offset >> \o Chunks(u \div Continuation)
    ELSE << u + Offset >>

EncodeInt(v) == Chunks(ZigZag(v))

RECURSIVE EncodeFrom(_, _, _)
EncodeFrom(pts, plon, plat) ==
    IF pts = << >> THEN << >>
    ELSE EncodeInt(pts[1][LAT] - plat) \o EncodeInt(pts[1][LON] - plon)
         \o EncodeFrom(Tail(pts), pts[1][LON], pts[1][LAT])

Encode(pts) == EncodeFrom(pts, 0, 0)

(* The arguments decode_geometry is applied to: the encodings of short     *)
(* coordinate lists, short strings over a few characters in and out of the *)
(* alphabet (space, ? @ _ ` and DEL), and the sample of the tests.         *)
MaxPoints == 2
MaxLen == 3
LonChoices == { -12020000, -1, 0, 17 }
LatChoices == { 3850000, 0, -16 }
PointChoices == { Point(lo, la) : lo \in LonChoices, la \in LatChoices }
RawCodes == { 32, 63, 64, 95, 96, 127 }
(* "_p~iF~ps|U_ulLnnqC_mqNvxq`@", the backquote given by its code point *)
SampleCodes == Codes("_p~iF~ps|U_ulLnnqC_mqNvxq") \o << 96 >> \o Codes("@")

SeqsUpTo(S, n) == UNION { [1..m -> S] : m \in 0..n }

(* create_trip is not running *)
TripIdle ==
    /\ pc = "idle"
    /\ total_mi = 0
    /\ total_s = 0
    /\ distance1_mi = 0
    /\ cycle_hours = 0
    /\ full_cum = << 0 >>
    /\ full_coords = << << 0, 0 >> >>
    /\ stops = << >>
    /\ events = << >>
    /\ current_time = 0
    /\ current_mi = 0
    /\ i = 0
    /\ window_start = 0
    /\ last_break_end = 0
    /\ cum_drive_day = 0
    /\ cum_on_day = 0
    /\ cum_on_8day = 0
    /\ next_fuel = 0
    /\ is_to_pickup = FALSE
    /\ current_pos = Pos(Whole(0), Whole(0))
    /\ time_since_window = 0
    /\ drive_since_break = 0
    /\ max_drive = 0
    /\ iter = 0
    /\ iter_base = 0
    /\ geo = [l \in Locations |-> "pending"]
    /\ route_data1 = "pending"
    /\ route_data2 = "pending"
    /\ requests = << >>
    /\ response = NoResponse
    /\ eld_logs = << >>

(* l.395-399 *)
DecodeInit ==
    /\ TripIdle
    /\ RendererIdle
    /\ \/ points \in SeqsUpTo(PointChoices, MaxPoints) /\ encoded = Encode(points)
       \/ points = << >> /\ encoded \in SeqsUpTo(RawCodes, MaxLen)
       \/ points = << >> /\ encoded = SampleCodes
    /\ coordinates = << >>
    /\ index = 0
    /\ lat = 0
    /\ lon = 0
    /\ shift = 0
    /\ result = 0
    /\ dpc = "test"

DecodeNext ==
    \/ DecodeTest
    \/ LatByte
    \/ LatChange
    \/ LonByte
    \/ LonChange

DecodeSpec == DecodeInit /\ [][DecodeNext]_vars

----------------------------------------------------------------------------
(* generate_log_image (l.437-503): the status polyline.  An event's hours  *)
(* are seconds of the day here, and an x coordinate is kept in units of    *)
(* 1/86400 pixel, so that 50 + hours * (1100 / 24) is a whole number.  The *)
(* trace is the list of the lines drawn with width line_w, each            *)
(* << x1, y1, x2, y2 >>; the grid and the texts are not modelled.          *)

GridLeft == 50
GridRight == 1150
GridWidth == 1100
GridTop == 100
RowH == 50
HoursPerDay == 24

(* one pixel *)
Px == Hours(HoursPerDay)

(* l.460, l.485: x = 50 + e['hours'] * hour_w *)
XOf(hours) == GridLeft * Px + hours * GridWidth

(* Faulty variant of RowCentre: the top of the row *)
RowTop(status) == GridTop + status * RowH

(* l.487, l.491, l.500: grid_top + status * row_h + row_h / 2 *)
RowCentre(status) == GridTop + status * RowH + RowH \div 2

(* l.479-482; events[0] of an empty list raises IndexError *)
RenderStart ==
    /\ rpc = "start"
    /\ IF r_events = << >>
       THEN /\ rpc' = "IndexError"
            /\ UNCHANGED << prev_status, prev_x, next_ev >>
       ELSE /\ prev_status' = r_events[1].status
            /\ prev_x' = GridLeft * Px
            /\ next_ev' = 2
            /\ rpc' = "loop"
    /\ UNCHANGED << r_events, trace, trip, decoder >>

(* l.483-496: one turn of for e in events[1:] *)
RenderEvent ==
    /\ rpc = "loop"
    /\ next_ev <= Len(r_events)
    /\ LET e == r_events[next_ev]
           x == XOf(e.hours)
           y == RowCentre(prev_status)
           new_y == RowCentre(e.status)
       IN  /\ trace' = trace \o << << prev_x, y, x, y >>, << x, y, x, new_y >> >>
           /\ prev_x' = x
           /\ prev_status' = e.status
    /\ next_ev' = next_ev + 1
    /\ UNCHANGED << r_events, rpc, trip, decoder >>

(* l.498-503: the final status line is extended to the end of the grid *)
RenderEnd ==
    /\ rpc = "loop"
    /\ next_ev > Len(r_events)
    /\ LET y == RowCentre(prev_status)
       IN  trace' = Append(trace, << prev_x, y, GridRight * Px, y >>)
    /\ rpc' = "returned"
    /\ UNCHANGED << r_events, prev_status, prev_x, next_ev, trip, decoder >>

(* The event lists generate_log_image is applied to: up to MaxEvents       *)
(* entries with an hour of 0, 4, 6 or 24 and a status the simulation       *)
(* emits, in any order.                                                    *)
MaxEvents == 3
HourChoices == { 0, Hours(4), Hours(6), Hours(24) }
StatusChoices == { OffDuty, Driving, OnDuty }
DayEventChoices == [hours : HourChoices, status : StatusChoices]

(* l.437 *)
RenderInit ==
    /\ TripIdle
    /\ DecoderIdle
    /\ r_events \in SeqsUpTo(DayEventChoices, MaxEvents)
    /\ prev_status = 0
    /\ prev_x = 0
    /\ next_ev = 0
    /\ trace = << >>
    /\ rpc = "start"

RenderNext ==
    \/ RenderStart
    \/ RenderEvent
    \/ RenderEnd

RenderSpec == RenderInit /\ [][RenderNext]_vars

----------------------------------------------------------------------------
(* Reading the event log *)

Last(seq) == seq[Len(seq)]
Labels == [k \in 1..Len(events) |-> events[k].location]
Count(label) == Cardinality({ k \in 1..Len(events) : events[k].location = label })

(* seconds since start_time, recovered from an event's (day, hours) stamp *)
StampTime(e) == e.day * SecPerDay + e.hours - StartSecOfDay

(* An event's span lasts until the next event, or until now for the last *)
SpanEnd(k) == IF k < Len(events) THEN StampTime(events[k + 1]) ELSE current_time
DrivingSpan(k) ==
    IF events[k].location = "Driving" THEN SpanEnd(k) - StampTime(events[k]) ELSE 0

RECURSIVE DrivenFromTo(_, _)
DrivenFromTo(a, b) == IF a > b THEN 0 ELSE DrivingSpan(a) + DrivenFromTo(a + 1, b)

RestLabels == { RestLabel(Hours(ShortRestHrs)), RestLabel(Hours(LongRestHrs)) }
PauseLabels == RestLabels \cup { "30min Break" }
LastPause ==
    LET ps == { k \in 1..Len(events) : events[k].location \in PauseLabels }
    IN  IF ps = {} THEN 0 ELSE CHOOSE k \in ps : \A j \in ps : j <= k

(* driving time logged since the latest 30min Break or Rest Stop *)
DrivenSincePause == DrivenFromTo(LastPause + 1, Len(events))

RealTrip == total_mi > 0 /\ total_s > 0

----------------------------------------------------------------------------
(* C1: for total_mi > 0 and total_hr > 0 the simulation loop terminates:   *)
(* every run reaches the end of create_trip with current_mi >= total_mi.   *)
C1_Termination ==
    (pc = "plan" /\ RealTrip) ~> (pc = "done" /\ current_mi >= total_mi)

(* a long trip with rests that has run to its end *)
C1_Witness ==
    pc = "done" /\ RealTrip /\ iter > 20 /\ current_mi >= total_mi
    /\ Count(RestLabel(Hours(LongRestHrs))) > 0

(* C2: cum_drive_day never exceeds 11 hours, in particular at the end of   *)
(* every Driving span.                                                      *)
C2_DriveDayLimit == cum_drive_day <= Hours(DriveLimitHrs)

(* a Driving span has just ended with the 11 hours used up *)
C2_Witness ==
    pc = "fuel" /\ Last(events).location = "Driving"
    /\ cum_drive_day = Hours(DriveLimitHrs)

(* C3: at the end of every Driving span the active window is at most 14    *)
(* hours old: current_time - window_start <= 14h.                           *)
C3_WindowLimit ==
    pc = "fuel" => current_time - window_start <= Hours(WindowLimitHrs)

(* C4: the driving time logged since the latest 30min Break or long rest   *)
(* is at most 8 hours, in every state.                                      *)
C4_BreakLimit == DrivenSincePause <= Hours(BreakAfterHrs)

(* a Driving span has just ended 8 hours after the latest pause, and a     *)
(* break follows                                                            *)
C4_Witness ==
    pc = "fuel" /\ DrivenSincePause = Hours(BreakAfterHrs) /\ LastPause > 0

(* C5: while on leg 1 current_mi never exceeds distance1_mi, and the       *)
(* Pickup event is emitted at current_mi = distance1_mi.                    *)
C5_PickupBoundary ==
    /\ is_to_pickup => current_mi <= distance1_mi
    /\ (pc = "pickup" /\ PickupDue(is_to_pickup, current_mi)) => current_mi = distance1_mi

----------------------------------------------------------------------------
(* The scenario of C6: 500 miles in 10 hours, no cycle hours used *)
Trip500 == total_mi = 500 /\ total_s = Hours(10) /\ cycle_hours = 0

IsPickupLabel(l) == l \in { "Pickup at B", "Start to Dropoff" }
NotPickupLabel(l) == ~IsPickupLabel(l)
TimelineSansPickup == SelectSeq(Labels, NotPickupLabel)

NoRestEvents == \A l \in RestLabels : Count(l) = 0 /\ Count("End Rest") = 0
NoFuelEvents == Count("Fueling") = 0 /\ Count("End Fueling") = 0
NoBreakEvents == Count("30min Break") = 0 /\ Count("End Break") = 0

(* the Pickup transition is the pair Pickup, Start to Dropoff, at most     *)
(* once, directly before a Driving event                                    *)
PickupTransitionWellPlaced ==
    /\ Count("Pickup at B") <= 1
    /\ \A k \in 1..Len(events) :
          events[k].location = "Pickup at B" =>
              /\ k + 2 <= Len(events)
              /\ events[k + 1].location = "Start to Dropoff"
              /\ events[k + 2].location = "Driving"

(* C6, as stated: the 500-mile, 10-hour trip has no rest, break or fuel    *)
(* event; its timeline is Start, Driving, Pickup transition, Dropoff,      *)
(* Off Duty.                                                                *)
C6_NoBreakTimeline ==
    (pc = "done" /\ Trip500) =>
        /\ NoRestEvents /\ NoBreakEvents /\ NoFuelEvents
        /\ PickupTransitionWellPlaced
        /\ TimelineSansPickup \in
              { << "Start at A", "Driving", "Dropoff at C", "Off Duty" >>,
                << "Start at A", "Driving", "Driving", "Dropoff at C", "Off Duty" >> }

(* C6, amended: the 500-mile, 10-hour trip has no rest and no fuel event   *)
(* and exactly one 30-minute break, taken after 8 hours of driving; its    *)
(* timeline is Start, Driving, 30min Break, End Break, Driving, Dropoff,   *)
(* Off Duty, with at most one Pickup transition directly before a Driving  *)
(* event.                                                                   *)
C6_OneBreakTimeline ==
    (pc = "done" /\ Trip500) =>
        /\ NoRestEvents /\ NoFuelEvents
        /\ Count("30min Break") = 1
        /\ PickupTransitionWellPlaced
        /\ TimelineSansPickup =
              << "Start at A", "Driving", "30min Break", "End Break",
                 "Driving", "Dropoff at C", "Off Duty" >>
        /\ DrivenFromTo(1, LastPause) = Hours(BreakAfterHrs)

(* the 500-mile trip has ended, with its pickup made on the way *)
C6_Witness ==
    pc = "done" /\ Trip500 /\ distance1_mi = 100 /\ Count("Pickup at B") = 1

(* C7: when the simulation of a trip ends, the last two events are the     *)
(* Dropoff (on duty) and, exactly one hour later, Off Duty; there is one   *)
(* Dropoff event; and once Off Duty is logged the log no longer changes.   *)
C7_EndOfLog ==
    (RealTrip /\ pc \in { "exit", "done" }) =>
        /\ Len(events) >= 2
        /\ Last(events).location = "Off Duty"
        /\ Last(events).status = OffDuty
        /\ events[Len(events) - 1].location = "Dropoff at C"
        /\ events[Len(events) - 1].status = OnDuty
        /\ StampTime(Last(events)) - StampTime(events[Len(events) - 1]) = Hours(1)
        /\ Count("Dropoff at C") = 1
        /\ Count("Off Duty") = 1

C7_LogClosed ==
    (events # << >> /\ Last(events).location = "Off Duty") => events' = events

C7_Dropoff == [](C7_EndOfLog) /\ [][C7_LogClosed]_vars

(* a trip with rests, breaks and fuel stops has ended *)
C7_Witness ==
    pc = "done" /\ RealTrip /\ Last(events).location = "Off Duty"
    /\ Count("Fueling") > 0 /\ Count("30min Break") > 0

(* C8: a driving step never overshoots next_fuel; a Fueling event is       *)
(* emitted with current_mi equal to next_fuel, a multiple of 1000, and     *)
(* then 30 minutes pass and next_fuel advances by 1000; the 1500-mile trip *)
(* at 50 mph has exactly one Fueling event, at mile 1000.                   *)
C8_NoOvershoot ==
    /\ current_mi <= next_fuel
    /\ next_fuel % FuelInterval = 0
    /\ (pc = "done" /\ total_mi = 1500 /\ total_s = Hours(30)) => Count("Fueling") = 1

C8_FuelStep ==
    Count("Fueling")' # Count("Fueling") =>
        /\ pc = "fuel"
        /\ current_mi = next_fuel
        /\ current_mi % FuelInterval = 0
        /\ current_mi' = current_mi
        /\ next_fuel' = next_fuel + FuelInterval
        /\ current_time' = current_time + Minutes(30)
        /\ Count("Fueling")' = Count("Fueling") + 1
        /\ (total_mi = 1500 /\ total_s = Hours(30)) => current_mi = 1000

C8_Fueling == [](C8_NoOvershoot) /\ [][C8_FuelStep]_vars

(* the 1500-mile trip at 50 mph has just fuelled at mile 1000 *)
C8_Witness ==
    pc = "finish" /\ total_mi = 1500 /\ total_s = Hours(30)
    /\ Last(events).location = "End Fueling" /\ current_mi = 1000
    /\ next_fuel = 2 * FuelInterval

(* Fueling stops of the returned list: those the planner seeds and those   *)
(* the simulation appends                                                   *)
IsFuelingStop(s) ==
    \/ s.type = "Fueling"
    \/ \E n \in 1..(total_mi \div FuelInterval + 1) : s.type = FuelingAt(n * FuelInterval)

FuelingStopCount == Cardinality({ k \in 1..Len(stops) : IsFuelingStop(stops[k]) })

(* C9: a completed trip returns floor(total_mi / 1000) Fueling stops. *)
C9_FuelStopCount ==
    (pc = "done" /\ RealTrip) => FuelingStopCount = total_mi \div FuelInterval

(* number of multiples of 1000 strictly below total_mi *)
MultiplesBelowTotal == Cardinality({ n \in 1..(total_mi \div FuelInterval + 1) :
                                        n * FuelInterval < total_mi })

(* C10: the planner seeds one Fueling stop for every multiple of 1000      *)
(* below total_mi, in increasing order, then the Pickup stop at            *)
(* pickup_coords and the Dropoff stop at dropoff_coords, whatever the      *)
(* cumulative-distance curve.                                               *)
C10_SeededStops ==
    pc = "start" =>
        /\ Len(stops) = MultiplesBelowTotal + 2
        /\ \A n \in 1..MultiplesBelowTotal : stops[n].type = FuelingAt(n * FuelInterval)
        /\ stops[Len(stops) - 1] =
              Stop(Pos(Whole(pickup_coords[1]), Whole(pickup_coords[2])), "Pickup")
        /\ stops[Len(stops)] =
              Stop(Pos(Whole(dropoff_coords[1]), Whole(dropoff_coords[2])), "Dropoff")

----------------------------------------------------------------------------
(* (day, hours) stamps in lexicographic order *)
StampLeq(a, b) == a.day < b.day \/ (a.day = b.day /\ a.hours <= b.hours)

C11_Chronological ==
    \A k \in 1..Len(events) :
        /\ events[k].hours >= 0
        /\ events[k].hours < SecPerDay
        /\ k > 1 => StampLeq(events[k - 1], events[k])

C11_Prefix ==
    /\ Len(events') >= Len(events)
    /\ SubSeq(events', 1, Len(events)) = events

(* C11: the event log is append-only and chronological: the (day, hour)    *)
(* stamps never decrease in log order, every hour-of-day is in [0, 24),    *)
(* and an appended event is never changed.                                  *)
C11_EventLog == [](C11_Chronological) /\ [][C11_Prefix]_vars

(* a finished log that runs over several days, midnight crossed by a rest  *)
C11_Witness ==
    /\ pc = "done" /\ Len(events) > 10 /\ Last(events).day >= 3
    /\ \E k \in 2..Len(events) :
          events[k].day > events[k - 1].day /\ events[k].hours < events[k - 1].hours

(* C12, as stated: there is exactly one Start event, the first of the log, *)
(* at hour 0 of the first day, on duty.                                     *)
C12_StartAtHourZero ==
    events # << >> =>
        /\ Count("Start at A") = 1
        /\ events[1] = [day |-> 0, hours |-> 0, status |-> 3, location |-> "Start at A"]

(* C12, amended: there is exactly one Start event, the first of the log,   *)
(* stamped 18:45 of the first day (start_time), on duty.                    *)
C12_StartAtStartTime ==
    events # << >> =>
        /\ Count("Start at A") = 1
        /\ events[1] = [day |-> 0, hours |-> Hours(18) + Minutes(45),
                        status |-> 3, location |-> "Start at A"]

(* a finished trip, whose log has grown past its Start event *)
C12_Witness ==
    pc = "done" /\ Len(events) > 5 /\ events[1].location = "Start at A"

(* C13: with total_hr <= 0 create_trip fails before the simulation starts: *)
(* no event and no stop is emitted and no normal result is returned,       *)
(* whatever total_mi is.                                                    *)
C13_DegenerateAborts ==
    total_s <= 0 =>
        /\ events = << >>
        /\ stops = << >>
        /\ pc \notin { "exit", "done" }

----------------------------------------------------------------------------
(* C20: the long rest step.  A rest is inserted exactly when               *)
(* cum_drive_day >= 11h or the window is 14h old or cum_on_8day >= 70h; it *)
(* lasts 34h if cum_on_8day >= 70h and 10h otherwise; Rest Stop (off duty) *)
(* and End Rest (on duty) are that far apart; afterwards window_start =    *)
(* last_break_end = current_time and cum_drive_day = 0; cum_on_8day loses  *)
(* 34h (not below 0) on the 34-hour branch only; current_mi and next_fuel  *)
(* are unchanged.                                                           *)
C20_RestStep ==
    /\ Count("End Rest")' # Count("End Rest") => pc = "rest"
    /\ pc = "rest" =>
         LET due == \/ cum_drive_day >= 11 * 3600
                    \/ current_time - window_start >= 14 * 3600
                    \/ cum_on_8day >= 70 * 3600
             long == cum_on_8day >= 70 * 3600
             h == IF long THEN 34 * 3600 ELSE 10 * 3600
             n == Len(events)
         IN  IF due
             THEN /\ Len(events') = n + 2
                  /\ SubSeq(events', 1, n) = events
                  /\ events'[n + 1].status = 0
                  /\ events'[n + 1].location =
                        (IF long THEN "Rest Stop (34hrs)" ELSE "Rest Stop (10hrs)")
                  /\ events'[n + 2].status = 3
                  /\ events'[n + 2].location = "End Rest"
                  /\ StampTime(events'[n + 1]) = current_time
                  /\ StampTime(events'[n + 2]) - StampTime(events'[n + 1]) = h
                  /\ current_time' = current_time + h
                  /\ window_start' = current_time'
                  /\ last_break_end' = current_time'
                  /\ cum_drive_day' = 0
                  /\ cum_on_8day' = (IF long
                                     THEN (IF cum_on_8day - h >= 0 THEN cum_on_8day - h ELSE 0)
                                     ELSE cum_on_8day)
                  /\ current_mi' = current_mi
                  /\ next_fuel' = next_fuel
             ELSE UNCHANGED << events, current_time, window_start, last_break_end,
                               cum_drive_day, cum_on_8day, current_mi, next_fuel >>

C20_LongRest == [][C20_RestStep]_vars

(* a 34-hour rest has just been taken, and earlier a 10-hour one *)
C20_Witness ==
    /\ pc = "brk" /\ Len(events) > 2
    /\ Last(events).location = "End Rest"
    /\ events[Len(events) - 1].location = "Rest Stop (34hrs)"
    /\ window_start = current_time
    /\ Count("Rest Stop (10hrs)") > 0

----------------------------------------------------------------------------
(* The days of the log *)
LogDays == { events[k].day : k \in 1..Len(events) }

(* C17: every per-day list handed to the renderer is non-empty, starts at  *)
(* hour 0 and has non-decreasing hours; the synthetic off-duty entry at    *)
(* hour 0 is put in front exactly when the day's first event is later than *)
(* hour 0; and there is one list for each day on which an event occurs.    *)
C17_DayLists ==
    pc = "done" =>
        /\ Len(eld_logs) = Cardinality(LogDays)
        /\ { eld_logs[k].day : k \in 1..Len(eld_logs) } = LogDays
        /\ \A k \in 1..Len(eld_logs) :
              LET day_ev == eld_logs[k].day_ev
                  OnDay(e) == e.day = eld_logs[k].day
                  real == SelectSeq(events, OnDay)
              IN  /\ day_ev # << >>
                  /\ day_ev[1].hours = 0
                  /\ \A j \in 2..Len(day_ev) : day_ev[j - 1].hours <= day_ev[j].hours
                  /\ IF real[1].hours > 0
                     THEN /\ day_ev[1] = [hours |-> 0, status |-> 0, location |-> ""]
                          /\ Tail(day_ev) = real
                     ELSE day_ev = real

C17_Witness ==
    /\ pc = "done"
    /\ Len(eld_logs) >= 2
    /\ \E k \in 1..Len(eld_logs) :
          /\ eld_logs[k].day_ev[1].location = ""
          /\ Len(eld_logs[k].day_ev) >= 4
    /\ \E k \in 1..Len(eld_logs) : eld_logs[k].day_ev[1].location # ""

----------------------------------------------------------------------------
(* word occurs in text *)
Occurs(word, text) ==
    \E k \in 1..(Len(text) - Len(word) + 1) : SubSeq(text, k, k + Len(word) - 1) = word

GeocodeFailed(l) == geo[l] \in { "http_error", "no_results" }

(* The HOS simulation has not run and has left nothing behind *)
NothingSimulated ==
    /\ pc \notin { "plan", "start", "loop", "rest", "brk", "pickup", "cap", "drive",
                    "fuel", "finish", "exit", "done", "crashed" }
    /\ events = << >>
    /\ stops = << >>
    /\ eld_logs = << >>
    /\ iter = 0

(* C18: when geocoding fails for any of the three locations, the response  *)
(* has status 400 and an error that starts with 'Invalid locations' and    *)
(* names exactly the failed ones of current, pickup, dropoff; no routing   *)
(* request is issued, no simulation runs and no eld_logs are produced.     *)
C18_InvalidLocations ==
    (\E l \in Locations : GeocodeFailed(l)) =>
        /\ response.status = 400
        /\ SubSeq(response.error, 1, 17) = "Invalid locations"
        /\ \A l \in Locations : Occurs(l, response.error) <=> GeocodeFailed(l)
        /\ \A k \in 1..Len(requests) : requests[k] \notin { "route 1", "route 2" }
        /\ "eld_logs" \notin response.keys
        /\ NothingSimulated

C18_Witness ==
    /\ geo = [l \in Locations |-> IF l = "current" THEN "found"
                                  ELSE IF l = "pickup" THEN "http_error" ELSE "no_results"]
    /\ response.error = "Invalid locations: pickup, dropoff"
    /\ Len(requests) = 3

(* C19: when the first routing request succeeds and the second is answered *)
(* with an error payload, the response has status 400 and the error        *)
(* 'Second route calculation failed'; the HOS simulation is never started  *)
(* and no route, stops or eld_logs are returned.                           *)
C19_SecondRouteFails ==
    (route_data1 = "route" /\ route_data2 = "error") =>
        /\ response.status = 400
        /\ response.error = "Second route calculation failed"
        /\ response.keys \cap { "route", "stops", "eld_logs" } = { }
        /\ NothingSimulated

C19_Witness ==
    /\ route_data1 = "route"
    /\ route_data2 = "error"
    /\ response.status = 400
    /\ requests[Len(requests)] = "route 2"
    /\ Len(requests) = 5

----------------------------------------------------------------------------
(* C14: decoding the encoding of a coordinate list never fails and returns *)
(* a list of the same length whose k-th entry is the k-th (lon, lat) of    *)
(* the original, in units of 1e-5 degree; while decoding, the coordinates  *)
(* found so far are the first of the original.                             *)
C14_RoundTrip ==
    encoded = Encode(points) /\ dpc # "idle" =>
        /\ dpc # "IndexError"
        /\ Len(coordinates) <= Len(points)
        /\ \A k \in 1..Len(coordinates) : coordinates[k] = points[k]
        /\ dpc = "returned" => Len(coordinates) = Len(points)

C14_Witness ==
    /\ dpc = "returned"
    /\ points = << << -12020000, 3850000 >>, << 17, -16 >> >>
    /\ encoded = Encode(points)
    /\ Len(encoded) > 10
    /\ coordinates = points

(* The string stops inside an integer, or after a latitude change with no  *)
(* longitude change: its last character has the continuation bit, or the   *)
(* number of integers it holds is odd.                                     *)
EndsMidInteger ==
    /\ encoded # << >>
    /\ \/ encoded[Len(encoded)] - 63 >= 32
       \/ Cardinality({ k \in 1..Len(encoded) : encoded[k] - 63 < 32 }) % 2 = 1

OutsideAlphabet == \E k \in 1..Len(encoded) : encoded[k] < 63 \/ encoded[k] > 126

(* C15: decode_geometry fails, and returns no list, whenever the string    *)
(* ends mid-integer or holds a character with a code below 63 or above 126 *)
C15_MalformedFails ==
    (EndsMidInteger \/ OutsideAlphabet) => dpc # "returned"

(* C16: the sample string decodes to a non-empty list of [lon, lat] pairs  *)
(* whose first is lon = -12020000, lat = 3850000 in units of 1e-5 degree.  *)
C16_Sample ==
    encoded = SampleCodes /\ dpc # "idle" =>
        /\ dpc # "IndexError"
        /\ \A k \in 1..Len(coordinates) : Len(coordinates[k]) = 2
        /\ coordinates # << >> => coordinates[1] = << -12020000, 3850000 >>
        /\ dpc = "returned" => coordinates # << >>

C16_Witness ==
    /\ encoded = SampleCodes
    /\ dpc = "returned"
    /\ coordinates = << << -12020000, 3850000 >>, << -12095000, 4070000 >>,
                        << -12645300, 4325200 >> >>

----------------------------------------------------------------------------
(* The events the current iteration has appended *)
IterLabels == { events[k].location : k \in (iter_base + 1)..Len(events) }

RestedThisIter == IterLabels \cap RestLabels # { }
PausedThisIter == IterLabels \cap PauseLabels # { }

(* the span of step 4 has been computed: l.309-313 are done *)
SpanComputed == pc = "drive"

C21_SpanOnlyAfterPause == SpanComputed /\ max_drive <= 0 => PausedThisIter

C21_Progress ==
    /\ (SpanComputed /\ ~PausedThisIter) => current_mi' > current_mi
    /\ (pc = "cap" /\ iter > 1 /\ max_drive <= 0 /\ pc' = "drive") =>
           (max_drive' > 0 \/ RestedThisIter)

(* C21: the drivable span is zero or negative only in an iteration that    *)
(* inserted a rest or a break; in every other iteration current_mi         *)
(* strictly increases; and the iteration after one with a non-positive     *)
(* span has a positive span or inserts another rest.                       *)
C21_NoStall == [](C21_SpanOnlyAfterPause) /\ [][C21_Progress]_vars

(* an iteration without driving has passed and the next one drives *)
C21_Witness ==
    /\ pc = "fuel"
    /\ iter > 2
    /\ ~PausedThisIter
    /\ Len(events) > iter_base
    /\ events[iter_base].location = "End Rest"
    /\ iter_base > 2
    /\ events[iter_base - 2].location = "Driving"

----------------------------------------------------------------------------
(* l.316-317: a Driving event is about to be added *)
DrivingStarts == pc = "drive" /\ max_drive > 0

(* C22: no Driving span is started while cum_on_8day is 70 hours or more:  *)
(* once the total has reached 70, a 34-hour rest has brought it below 70   *)
(* before the next Driving event.                                          *)
C22_CycleLimit == DrivingStarts => cum_on_8day < Hours(70)

----------------------------------------------------------------------------
LastIndex == Len(full_cum) - 1

C23_CursorInRange == 0 <= i /\ i <= LastIndex

(* l.325-336 have run: the step from "drive" that drives *)
C23_Lookup ==
    (pc = "drive" /\ max_drive > 0) =>
        /\ i' >= i
        /\ i' <= LastIndex
        /\ i' < LastIndex =>
              /\ full_cum[i' + 1] < current_mi'
              /\ current_mi' <= full_cum[i' + 2]
              /\ full_cum[i' + 2] - full_cum[i' + 1] > 0
              /\ current_pos'.lat[2] = full_cum[i' + 2] - full_cum[i' + 1]
              /\ current_pos'.lon[2] = full_cum[i' + 2] - full_cum[i' + 1]
        /\ current_mi' > full_cum[Len(full_cum)] =>
              /\ i' = LastIndex
              /\ current_pos' = [lat |-> << full_coords[Len(full_coords)][2], 1 >>,
                                 lon |-> << full_coords[Len(full_coords)][1], 1 >>]

(* C23: in the position lookup the cursor never moves backward and stays   *)
(* within [0, len(full_cum) - 1]; below the last index it brackets the     *)
(* target, full_cum[i] < target <= full_cum[i+1], so that the denominator  *)
(* of the fraction is positive and the fraction lies in (0, 1], also where *)
(* adjacent route points coincide; a target beyond the end of the curve    *)
(* gives the last route coordinate.                                        *)
C23_LivePosition == [](C23_CursorInRange) /\ [][C23_Lookup]_vars

(* the cursor has passed two coinciding route points and interpolates *)
C23_Witness ==
    /\ pc = "fuel"
    /\ full_cum = << 0, 1000, 1000, 3000 >>
    /\ i = 2
    /\ current_mi > 1000
    /\ current_mi < 3000
    /\ current_pos.lat[2] = 2000

----------------------------------------------------------------------------
(* The list starts at hour 0 and its hours never decrease and lie in [0, 24] *)
RenderPrecondition ==
    /\ r_events # << >>
    /\ r_events[1].hours = 0
    /\ \A k \in 1..Len(r_events) : r_events[k].hours >= 0 /\ r_events[k].hours <= 24 * 3600
    /\ \A k \in 2..Len(r_events) : r_events[k - 1].hours <= r_events[k].hours

(* x = 50 + hour * 1100 / 24 and the row centre y = 100 + 50 * status + 25 *)
(* of event k, x in 1/86400 pixel                                          *)
TraceX(k) == 50 * 86400 + r_events[k].hours * 1100
TraceY(k) == 100 + 50 * r_events[k].status + 25

(* C24: for a list that starts at hour 0 with non-decreasing hours in      *)
(* [0, 24] the status trace is one connected stepped path: from x = 50 on  *)
(* the first status's row centre, for each event k after the first a       *)
(* horizontal line at the row centre of status(k-1) from the previous x to *)
(* x(k), then a vertical line at x(k) to the row centre of status(k), and  *)
(* last a horizontal line to x = 1150 at the final row centre; every x is  *)
(* within [50, 1150] and the x never decrease along the path.              *)
C24_SteppedTrace ==
    (rpc = "returned" /\ RenderPrecondition) =>
        LET n == Len(r_events)
        IN  /\ Len(trace) = 2 * (n - 1) + 1
            /\ trace[1][1] = 50 * 86400
            /\ trace[1][2] = TraceY(1)
            /\ \A k \in 2..n :
                  /\ trace[2 * k - 3] = << TraceX(k - 1), TraceY(k - 1), TraceX(k), TraceY(k - 1) >>
                  /\ trace[2 * k - 2] = << TraceX(k), TraceY(k - 1), TraceX(k), TraceY(k) >>
            /\ trace[2 * n - 1] = << TraceX(n), TraceY(n), 1150 * 86400, TraceY(n) >>
            /\ \A j \in 2..Len(trace) :
                  trace[j][1] = trace[j - 1][3] /\ trace[j][2] = trace[j - 1][4]
            /\ \A j \in 1..Len(trace) :
                  /\ 50 * 86400 <= trace[j][1]
                  /\ trace[j][1] <= trace[j][3]
                  /\ trace[j][3] <= 1150 * 86400

(* the list of test_generate_log_image *)
C24_Witness ==
    /\ rpc = "returned"
    /\ r_events = << [hours |-> 0, status |-> 0], [hours |-> 4 * 3600, status |-> 2],
                     [hours |-> 6 * 3600, status |-> 0] >>
    /\ Len(trace) = 5
    /\ trace[2] = << 20160000, 125, 20160000, 225 >>

----------------------------------------------------------------------------
(* the place of the only event with this label *)
PlaceOf(label) == CHOOSE k \in 1..Len(events) : events[k].location = label

(* C25: every completed trip with total_mi > 0 has exactly one Pickup      *)
(* event, before the Dropoff event, and the next event is 'Start to        *)
(* Dropoff', Driving, one hour later; for every split of the distance.     *)
C25_OnePickup ==
    (pc = "done" /\ RealTrip) =>
        /\ Count("Pickup at B") = 1
        /\ PlaceOf("Pickup at B") < PlaceOf("Dropoff at C")
        /\ LET k == PlaceOf("Pickup at B")
           IN  /\ events[k + 1].location = "Start to Dropoff"
               /\ events[k + 1].status = 2
               /\ StampTime(events[k + 1]) - StampTime(events[k]) = 3600

(* The duty status in effect when this day began: that of the last event   *)
(* stamped on an earlier day.                                              *)
StatusBefore(day) ==
    LET Earlier(e) == e.day < day
    IN  Last(SelectSeq(events, Earlier)).status

(* C26: for every day after the first that has a log, the status of the    *)
(* log's hour-0 entry is the duty status in effect at the end of the day   *)
(* before: a driving or on-duty span that crosses midnight is not shown as *)
(* off duty at the start of the next day.                                  *)
C26_MidnightContinuity ==
    pc = "done" =>
        \A k \in 2..Len(eld_logs) :
            eld_logs[k].day_ev[1].status = StatusBefore(eld_logs[k].day)
====
